---- MODULE Spec2Model ----
(***************************************************************************)
(* Model of the migration tooling of SuperSiteHero:                        *)
(*   run-migrations.py            (run_migrations, __main__)               *)
(*   scripts/run-single-migration.py (run_migration, __main__)             *)
(*   scripts/split-migrations.py  (module body)                            *)
(* Strings are modelled as tuples of one-character strings so that glob    *)
(* matching, the marker regular expression, sorting, int() and the         *)
(* zero-padded formatting are computed character by character.             *)
(***************************************************************************)
EXTENDS Integers, Sequences, FiniteSets, TLC

VARIABLES
    \* ---- environment of the runners ----
    prog,            \* which script runs: "run_migrations" or "run_migration"
    urlSet,          \* VITE_SUPABASE_URL is set
    pwEnv,           \* SUPABASE_DB_PASSWORD is set and non-empty
    pwPrompt,        \* the password typed at the getpass prompt is non-empty
    argc,            \* len(sys.argv) of run-single-migration.py
    target,          \* sys.argv[1] of run-single-migration.py
    dirExists,       \* the migrations directory exists
    listing,         \* directory entries in the order the OS returns them
    guarded,         \* every script is guarded (IF NOT EXISTS idioms)
    \* ---- state of the runners ----
    pc,              \* position in the script
    migration_files, \* run_migrations: the sorted list of discovered files
    i,               \* run_migrations: loop index (enumerate(..., 1))
    migration_sql,   \* the file whose text is currently held in migration_sql
    conn,            \* "none", "open" or "closed"
    out,             \* progress lines printed so far
    reads,           \* files opened for reading, in order
    executed,        \* files whose text was passed to cursor.execute, in order
    applied,         \* files whose effects are committed in the database
    exitCode,        \* process exit status, NoExit while running
    sql_text,        \* the text held in migration_sql after f.read()
    executedText,    \* the texts passed to cursor.execute, in order
    runNo,           \* number of the current run against the same database
    appliedAtStart,  \* what the database held when the current run started
    \* ---- state of split-migrations.py ----
    content,         \* text of COMBINED_ALL_MIGRATIONS.sql
    lines,           \* content.split('\n')
    idx,             \* position of the for loop in lines
    migrations,      \* dict: key -> [name, content]
    current_number,  \* int or None
    current_name,    \* str or None
    buffer,          \* list of lines accumulated for the open migration
    keysLeft,        \* sorted(migrations.keys()) still to be written
    finalized,       \* every value assigned into migrations, in order
    written,         \* files written so far: <<[filename, content], ...>>
    spc,             \* position in split-migrations.py
    \* ---- splitting again what was split ----
    units,           \* the units the combined document was built from
    pass,            \* 1: first split, 2: split of the emitted bodies
    firstWritten     \* the files written by the first split

envVars == <<prog, urlSet, pwEnv, pwPrompt, argc, target, dirExists, listing,
             guarded>>
textVars == <<sql_text, executedText>>
histVars == <<runNo, appliedAtStart>>
runVars == <<pc, migration_files, i, migration_sql, conn, out, reads,
             executed, applied, exitCode, textVars, histVars>>
tripVars == <<units, pass, firstWritten>>
splitVars == <<content, lines, idx, migrations, current_number, current_name,
               buffer, keysLeft, finalized, written, spc, tripVars>>
vars == <<envVars, runVars, splitVars>>

----------------------------------------------------------------------------
\* Bounds of the model.

\* Largest number of entries in the migrations directory.
MaxFiles == 3
\* Largest number of lines of the combined document.
MaxLines == 3

----------------------------------------------------------------------------
\* Characters and strings.

Range(s) == {s[k] : k \in 1..Len(s)}

\* Code points of the characters used (Python compares str by code point).
AsciiTable ==
    << <<"\r", 13>>, <<" ", 32>>, <<"-", 45>>, <<".", 46>>,
       <<"0", 48>>, <<"1", 49>>, <<"2", 50>>, <<"3", 51>>, <<"4", 52>>,
       <<"5", 53>>, <<"6", 54>>, <<"7", 55>>, <<"8", 56>>, <<"9", 57>>,
       <<":", 58>>,
       <<"A", 65>>, <<"B", 66>>, <<"C", 67>>, <<"D", 68>>, <<"E", 69>>,
       <<"G", 71>>, <<"I", 73>>, <<"L", 76>>, <<"M", 77>>, <<"N", 78>>,
       <<"O", 79>>, <<"R", 82>>, <<"S", 83>>, <<"T", 84>>,
       <<"_", 95>>,
       <<"a", 97>>, <<"b", 98>>, <<"c", 99>>, <<"d", 100>>, <<"g", 103>>,
       <<"i", 105>>, <<"l", 108>>, <<"m", 109>>, <<"n", 110>>, <<"o", 111>>,
       <<"q", 113>>, <<"r", 114>>, <<"s", 115>>, <<"t", 116>>, <<"x", 120>> >>

Ord(c) == (CHOOSE p \in Range(AsciiTable) : p[1] = c)[2]

Digits == <<"0", "1", "2", "3", "4", "5", "6", "7", "8", "9">>

IsDigit(c) == c \in Range(Digits)

DigitVal(c) == (CHOOSE k \in 1..10 : Digits[k] = c) - 1

\* str.__lt__: lexicographic comparison by code point.
RECURSIVE StrLess(_, _)
StrLess(a, b) ==
    IF b = <<>> THEN FALSE
    ELSE IF a = <<>> THEN TRUE
    ELSE IF a[1] = b[1] THEN StrLess(Tail(a), Tail(b))
    ELSE Ord(a[1]) < Ord(b[1])

StartsWith(s, p) == Len(s) >= Len(p) /\ SubSeq(s, 1, Len(p)) = p

EndsWith(s, p) ==
    Len(s) >= Len(p) /\ SubSeq(s, Len(s) - Len(p) + 1, Len(s)) = p

\* sorted(): insertion of x into an ascending list, after equal elements.
RECURSIVE InsertSorted(_, _)
InsertSorted(x, s) ==
    IF s = <<>> THEN <<x>>
    ELSE IF StrLess(x, s[1]) THEN <<x>> \o s
    ELSE <<s[1]>> \o InsertSorted(x, Tail(s))

RECURSIVE Sorted(_)
Sorted(s) ==
    IF s = <<>> THEN <<>>
    ELSE InsertSorted(s[Len(s)], Sorted(SubSeq(s, 1, Len(s) - 1)))

RECURSIVE SelectSeqIn(_, _)
SelectSeqIn(s, S) ==
    IF s = <<>> THEN <<>>
    ELSE (IF s[1] \in S THEN <<s[1]>> ELSE <<>>) \o SelectSeqIn(Tail(s), S)

----------------------------------------------------------------------------
\* File names of the migrations directory.

DotSql == <<".", "s", "q", "l">>

F001a == <<"0", "0", "1", "_", "a">> \o DotSql
F001b == <<"0", "0", "1", "_", "b">> \o DotSql
F002b == <<"0", "0", "2", "_", "b">> \o DotSql
F003c == <<"0", "0", "3", "_", "c">> \o DotSql
Fabcx == <<"a", "b", "c", "_", "x">> \o DotSql
F0004d == <<"0", "0", "0", "4", "_", "d">> \o DotSql
F010txt == <<"0", "1", "0", "_", "x", ".", "t", "x", "t">>
COMBINED_ALL_MIGRATIONS ==
    <<"C", "O", "M", "B", "I", "N", "E", "D", "_", "A", "L", "L", "_",
      "M", "I", "G", "R", "A", "T", "I", "O", "N", "S">> \o DotSql

FileNames ==
    {F001a, F001b, F002b, F003c, Fabcx, F0004d, F010txt,
     COMBINED_ALL_MIGRATIONS}

\* Path.glob('???_*.sql'): three arbitrary characters, an underscore,
\* anything, then ".sql".
GlobMatch(name) ==
    /\ Len(name) >= 8
    /\ name[4] = "_"
    /\ EndsWith(name, DotSql)

\* The list comprehension of run_migrations: glob, minus the combined file.
GlobFiltered(entries) ==
    SelectSeqIn(entries,
        {f \in Range(entries) :
            GlobMatch(f) /\ f # COMBINED_ALL_MIGRATIONS})

\* migration_files = sorted([...]); a missing directory globs to nothing.
DiscoverFiles(exists, entries) ==
    IF exists THEN Sorted(GlobFiltered(entries)) ELSE <<>>

\* The numeric sequence of a file: its three-digit prefix, NoSequence when
\* the first three characters are not all digits.
NoSequence == -1

SeqOf(name) ==
    IF Len(name) >= 3 /\ IsDigit(name[1]) /\ IsDigit(name[2]) /\ IsDigit(name[3])
    THEN 100 * DigitVal(name[1]) + 10 * DigitVal(name[2]) + DigitVal(name[3])
    ELSE NoSequence

----------------------------------------------------------------------------
\* Contents of the files, and what open(path, 'r', encoding='utf-8') makes
\* of them.

CR == "\r"
LF == "\n"

\* The bytes of each file on disk (ASCII, Unix, Windows and old Mac line
\* endings).
FileText(name) ==
    IF name = F001a THEN <<"a", LF, "b">>
    ELSE IF name = F001b THEN <<"a", CR, LF, "b">>
    ELSE IF name = F002b THEN <<"a", CR, "b", LF>>
    ELSE IF name = Fabcx THEN <<"b", LF>>
    ELSE <<"a">>

\* f.read() of a file opened in text mode with the default newline=None:
\* universal newlines, "\r\n" and "\r" both become "\n".
RECURSIVE ReadText(_)
ReadText(bytes) ==
    IF bytes = <<>> THEN <<>>
    ELSE IF bytes[1] = CR
    THEN IF Len(bytes) >= 2 /\ bytes[2] = LF
         THEN <<LF>> \o ReadText(SubSeq(bytes, 3, Len(bytes)))
         ELSE <<LF>> \o ReadText(Tail(bytes))
    ELSE <<bytes[1]>> \o ReadText(Tail(bytes))

----------------------------------------------------------------------------
\* Directory contents: every set of at most MaxFiles names, in every order.

RECURSIVE Perms(_)
Perms(S) ==
    IF S = {} THEN {<<>>}
    ELSE UNION {{<<x>> \o p : p \in Perms(S \ {x})} : x \in S}

Listings ==
    UNION {Perms(S) : S \in {T \in SUBSET FileNames : Cardinality(T) <= MaxFiles}}

NoExit == -1
NoFile == <<>>

\* A printed progress line.
Line(kind, n, file, err) == [kind |-> kind, n |-> n, file |-> file, err |-> err]

----------------------------------------------------------------------------
\* Initial states.

RunMigrationsProg == "run_migrations"
RunMigrationProg == "run_migration"

\* Arguments and directories tried with run-single-migration.py.
SingleTargets == {F001a, F002b}
SingleListings == {l \in Listings : Len(l) <= 1}

SplitIdle ==
    /\ content = <<>>
    /\ lines = <<>>
    /\ idx = 0
    /\ migrations = <<>>
    /\ current_number = -1
    /\ current_name = <<>>
    /\ buffer = <<>>
    /\ keysLeft = <<>>
    /\ finalized = <<>>
    /\ written = <<>>
    /\ spc = "idle"
    /\ units = <<>>
    /\ pass = 1
    /\ firstWritten = <<>>

RunStart(p) ==
    /\ pc = p
    /\ migration_files = <<>>
    /\ i = 0
    /\ migration_sql = NoFile
    /\ sql_text = <<>>
    /\ executedText = <<>>
    /\ runNo = 1
    /\ appliedAtStart = <<>>
    /\ conn = "none"
    /\ out = <<>>
    /\ reads = <<>>
    /\ executed = <<>>
    /\ applied = <<>>
    /\ exitCode = NoExit

Init ==
    /\ prog \in {RunMigrationsProg, RunMigrationProg}
    /\ urlSet \in BOOLEAN
    /\ pwEnv \in BOOLEAN
    /\ dirExists \in BOOLEAN
    /\ guarded = TRUE
    /\ IF prog = RunMigrationsProg
       THEN /\ pwPrompt \in BOOLEAN
            /\ argc = 1
            /\ target = NoFile
            /\ listing \in (IF dirExists THEN Listings ELSE {<<>>})
            /\ RunStart("env")
       ELSE /\ pwPrompt = FALSE
            /\ argc \in 1..4
            /\ target \in SingleTargets
            /\ listing \in (IF dirExists THEN SingleListings ELSE {<<>>})
            /\ RunStart("s_args")
    /\ SplitIdle

----------------------------------------------------------------------------
\* run-migrations.py

\* print(...) followed by sys.exit(code).
ExitWith(code, ln) ==
    /\ out' = Append(out, ln)
    /\ exitCode' = code
    /\ pc' = "exit"

\* Lines 63-90 of run_migrations, with get_database_password (32-59).
LoadEnv ==
    /\ prog = RunMigrationsProg
    /\ pc = "env"
    /\ IF ~urlSet
       THEN ExitWith(1, Line("no url", 0, NoFile, ""))
       ELSE IF pwEnv \/ pwPrompt
       THEN /\ pc' = "discover"
            /\ UNCHANGED <<out, exitCode>>
       ELSE ExitWith(1, Line("empty password", 0, NoFile, ""))
    /\ UNCHANGED <<migration_files, i, migration_sql, sql_text, conn, reads, executed, executedText,
                   applied>>
    /\ UNCHANGED <<envVars, splitVars, histVars>>

\* Discover without the check of lines 100-102.
DiscoverNoCheck ==
    /\ prog = RunMigrationsProg
    /\ pc = "discover"
    /\ migration_files' = DiscoverFiles(dirExists, listing)
    /\ pc' = "connect"
    /\ out' = Append(out, Line("found", Len(migration_files'), NoFile, ""))
    /\ UNCHANGED exitCode
    /\ UNCHANGED <<i, migration_sql, sql_text, conn, reads, executed, executedText, applied>>
    /\ UNCHANGED <<envVars, splitVars, histVars>>

\* Lines 93-104: glob, filter, sort, and the check for an empty list.
Discover ==
    /\ prog = RunMigrationsProg
    /\ pc = "discover"
    /\ migration_files' = DiscoverFiles(dirExists, listing)
    /\ IF migration_files' = <<>>
       THEN ExitWith(1, Line("no migration files", 0, NoFile, ""))
       ELSE /\ pc' = "connect"
            /\ out' = Append(out, Line("found", Len(migration_files'), NoFile, ""))
            /\ UNCHANGED exitCode
    /\ UNCHANGED <<i, migration_sql, sql_text, conn, reads, executed, executedText, applied>>
    /\ UNCHANGED <<envVars, splitVars, histVars>>

\* Connect of an engine that keeps a cursor: the loop resumes after the
\* units the database already holds.
ConnectResume ==
    /\ prog = RunMigrationsProg
    /\ pc = "connect"
    /\ \E r \in {"ok", "dberror"} :
          IF r = "ok"
          THEN /\ conn' = "open"
               /\ i' = Len(applied) + 1
               /\ pc' = "loop"
               /\ out' = Append(out, Line("connected", 0, NoFile, ""))
               /\ UNCHANGED exitCode
          ELSE /\ ExitWith(1, Line("Database error", 0, NoFile, r))
               /\ UNCHANGED <<conn, i>>
    /\ UNCHANGED <<migration_files, migration_sql, sql_text, reads, executed,
                   executedText, applied>>
    /\ UNCHANGED <<envVars, splitVars, histVars>>

\* Lines 109-115, and 144-147 when psycopg2.connect raises.
Connect ==
    /\ prog = RunMigrationsProg
    /\ pc = "connect"
    /\ \E r \in {"ok", "dberror"} :
          IF r = "ok"
          THEN /\ conn' = "open"
               /\ i' = 1
               /\ pc' = "loop"
               /\ out' = Append(out, Line("connected", 0, NoFile, ""))
               /\ UNCHANGED exitCode
          ELSE /\ ExitWith(1, Line("Database error", 0, NoFile, r))
               /\ UNCHANGED <<conn, i>>
    /\ UNCHANGED <<migration_files, migration_sql, sql_text, reads, executed, executedText, applied>>
    /\ UNCHANGED <<envVars, splitVars, histVars>>

\* ReadUnit that skips a file it cannot read and goes on with the next.
ReadUnitSkip ==
    /\ prog = RunMigrationsProg
    /\ pc = "loop"
    /\ i <= Len(migration_files)
    /\ reads' = Append(reads, migration_files[i])
    /\ \E r \in {"ok", "oserror"} :
          IF r = "ok"
          THEN /\ migration_sql' = migration_files[i]
               /\ sql_text' = ReadText(FileText(migration_files[i]))
               /\ pc' = "exec"
               /\ UNCHANGED <<out, i>>
          ELSE /\ out' = Append(out, Line("Error", i, migration_files[i], r))
               /\ i' = i + 1
               /\ UNCHANGED <<migration_sql, sql_text, pc>>
    /\ UNCHANGED <<migration_files, conn, executed, executedText, applied,
                   exitCode>>
    /\ UNCHANGED <<envVars, splitVars, histVars>>

\* Lines 118-121: the next file is opened and read; 148-150 when that raises.
ReadUnit ==
    /\ prog = RunMigrationsProg
    /\ pc = "loop"
    /\ i <= Len(migration_files)
    /\ reads' = Append(reads, migration_files[i])
    /\ \E r \in {"ok", "oserror"} :
          IF r = "ok"
          THEN /\ migration_sql' = migration_files[i]
               /\ sql_text' = ReadText(FileText(migration_files[i]))
               /\ pc' = "exec"
               /\ UNCHANGED <<out, exitCode>>
          ELSE /\ ExitWith(1, Line("Error", i, migration_files[i], r))
               /\ UNCHANGED <<migration_sql, sql_text>>
    /\ UNCHANGED <<migration_files, i, conn, executed, executedText, applied>>
    /\ UNCHANGED <<envVars, splitVars, histVars>>

\* ExecuteUnit with the re-raise of line 130 left out: after FAILED the loop
\* goes on with the next file.
ExecuteUnitContinue ==
    /\ prog = RunMigrationsProg
    /\ pc = "exec"
    /\ executed' = Append(executed, migration_sql)
    /\ executedText' = Append(executedText, sql_text)
    /\ \E r \in {"ok", "dberror", "error"} :
          /\ IF r = "ok"
             THEN /\ applied' = Append(applied, migration_sql)
                  /\ out' = Append(out, Line("OK", i, migration_files[i], ""))
             ELSE /\ out' = out \o
                        << Line("FAILED", i, migration_files[i], r),
                           Line("Error", i, migration_files[i], r) >>
                  /\ UNCHANGED applied
          /\ i' = i + 1
          /\ pc' = "loop"
          /\ UNCHANGED exitCode
    /\ UNCHANGED <<migration_files, migration_sql, sql_text, conn, reads>>
    /\ UNCHANGED <<envVars, splitVars, histVars>>

\* ExecuteUnit on a connection without autocommit (line 111 left out): the
\* statement's effects are never committed.
ExecuteUnitNoCommit ==
    /\ prog = RunMigrationsProg
    /\ pc = "exec"
    /\ executed' = Append(executed, migration_sql)
    /\ executedText' = Append(executedText, sql_text)
    /\ \E r \in {"ok", "dberror", "error"} :
          IF r = "ok"
          THEN /\ out' = Append(out, Line("OK", i, migration_files[i], ""))
               /\ i' = i + 1
               /\ pc' = "loop"
               /\ UNCHANGED exitCode
          ELSE /\ out' = out \o
                     << Line("FAILED", i, migration_files[i], r),
                        Line(IF r = "dberror" THEN "Database error" ELSE "Error",
                             i, migration_files[i], r) >>
               /\ exitCode' = 1
               /\ pc' = "exit"
               /\ UNCHANGED i
    /\ UNCHANGED applied
    /\ UNCHANGED <<migration_files, migration_sql, sql_text, conn, reads>>
    /\ UNCHANGED <<envVars, splitVars, histVars>>

\* ExecuteUnit that tries a failed script again instead of re-raising.
ExecuteUnitRetry ==
    /\ prog = RunMigrationsProg
    /\ pc = "exec"
    /\ Len(executed) < 4
    /\ executed' = Append(executed, migration_sql)
    /\ executedText' = Append(executedText, sql_text)
    /\ \E r \in {"ok", "dberror", "error"} :
          IF r = "ok"
          THEN /\ applied' = Append(applied, migration_sql)
               /\ out' = Append(out, Line("OK", i, migration_files[i], ""))
               /\ i' = i + 1
               /\ pc' = "loop"
          ELSE /\ out' = Append(out, Line("FAILED", i, migration_files[i], r))
               /\ UNCHANGED <<applied, i, pc>>
    /\ UNCHANGED <<migration_files, migration_sql, sql_text, conn, reads,
                   exitCode>>
    /\ UNCHANGED <<envVars, splitVars, histVars>>

\* What the database answers to a script: one it already holds the effect
\* of succeeds when it is guarded and fails otherwise; any other script may
\* succeed or fail.
ExecuteOutcomes(sqlFile, db) ==
    IF sqlFile \in Range(db)
    THEN (IF guarded THEN {"ok"} ELSE {"dberror"})
    ELSE {"ok", "dberror", "error"}

\* The database after a script succeeded: a guarded script whose effect is
\* already there changes nothing.
Commit(sqlFile, db) ==
    IF sqlFile \in Range(db) THEN db ELSE Append(db, sqlFile)

\* Lines 123-130: cursor.execute on an autocommit connection, then OK, or
\* FAILED, the error text and the re-raise that lines 144-150 turn into
\* sys.exit(1).
ExecuteUnit ==
    /\ prog = RunMigrationsProg
    /\ pc = "exec"
    /\ executed' = Append(executed, migration_sql)
    /\ executedText' = Append(executedText, sql_text)
    /\ \E r \in ExecuteOutcomes(migration_sql, applied) :
          IF r = "ok"
          THEN /\ applied' = Commit(migration_sql, applied)
               /\ out' = Append(out, Line("OK", i, migration_files[i], ""))
               /\ i' = i + 1
               /\ pc' = "loop"
               /\ UNCHANGED exitCode
          ELSE /\ out' = out \o
                     << Line("FAILED", i, migration_files[i], r),
                        Line(IF r = "dberror" THEN "Database error" ELSE "Error",
                             i, migration_files[i], r) >>
               /\ exitCode' = 1
               /\ pc' = "exit"
               /\ UNCHANGED <<applied, i>>
    /\ UNCHANGED <<migration_files, migration_sql, sql_text, conn, reads>>
    /\ UNCHANGED <<envVars, splitVars, histVars>>

\* Lines 132-142: the loop is exhausted; completion message, cursor.close(),
\* conn.close(), and the script ends with status 0.
Finish ==
    /\ prog = RunMigrationsProg
    /\ pc = "loop"
    /\ i > Len(migration_files)
    /\ out' = Append(out, Line("completed", 0, NoFile, ""))
    /\ conn' = "closed"
    /\ exitCode' = 0
    /\ pc' = "exit"
    /\ UNCHANGED <<migration_files, i, migration_sql, sql_text, reads, executed, executedText, applied>>
    /\ UNCHANGED <<envVars, splitVars, histVars>>

\* Lines 152-157: KeyboardInterrupt at any point of run_migrations.
Cancel ==
    /\ prog = RunMigrationsProg
    /\ pc # "exit"
    /\ ExitWith(1, Line("cancelled", 0, NoFile, ""))
    /\ UNCHANGED <<migration_files, i, migration_sql, sql_text, conn, reads, executed, executedText,
                   applied>>
    /\ UNCHANGED <<envVars, splitVars, histVars>>

----------------------------------------------------------------------------
\* scripts/run-single-migration.py

\* Lines 100-105: the usage check of __main__.
SingleArgs ==
    /\ prog = RunMigrationProg
    /\ pc = "s_args"
    /\ IF argc < 2 \/ argc > 3
       THEN ExitWith(1, Line("usage", 0, NoFile, ""))
       ELSE /\ pc' = "s_env"
            /\ UNCHANGED <<out, exitCode>>
    /\ UNCHANGED <<migration_files, i, migration_sql, sql_text, conn, reads, executed, executedText,
                   applied>>
    /\ UNCHANGED <<envVars, splitVars, histVars>>

\* Lines 38-64 of run_migration, with get_database_password (27-34).
SingleLoadEnv ==
    /\ prog = RunMigrationProg
    /\ pc = "s_env"
    /\ IF ~urlSet
       THEN ExitWith(1, Line("no url", 0, NoFile, ""))
       ELSE IF argc = 3 \/ pwEnv
       THEN /\ pc' = "s_check"
            /\ UNCHANGED <<out, exitCode>>
       ELSE ExitWith(1, Line("no password", 0, NoFile, ""))
    /\ UNCHANGED <<migration_files, i, migration_sql, sql_text, conn, reads, executed, executedText,
                   applied>>
    /\ UNCHANGED <<envVars, splitVars, histVars>>

\* Lines 67-70: migration_path.exists().
SingleCheckFile ==
    /\ prog = RunMigrationProg
    /\ pc = "s_check"
    /\ IF dirExists /\ target \in Range(listing)
       THEN /\ pc' = "s_read"
            /\ UNCHANGED <<out, exitCode>>
       ELSE ExitWith(1, Line("file not found", 0, target, ""))
    /\ UNCHANGED <<migration_files, i, migration_sql, sql_text, conn, reads, executed, executedText,
                   applied>>
    /\ UNCHANGED <<envVars, splitVars, histVars>>

\* Lines 72-73; an exception here reaches __main__ (112-114).
SingleRead ==
    /\ prog = RunMigrationProg
    /\ pc = "s_read"
    /\ reads' = Append(reads, target)
    /\ \E r \in {"ok", "oserror"} :
          IF r = "ok"
          THEN /\ migration_sql' = target
               /\ sql_text' = ReadText(FileText(target))
               /\ pc' = "s_connect"
               /\ UNCHANGED <<out, exitCode>>
          ELSE /\ ExitWith(1, Line("Fatal error", 0, target, r))
               /\ UNCHANGED <<migration_sql, sql_text>>
    /\ UNCHANGED <<migration_files, i, conn, executed, executedText, applied>>
    /\ UNCHANGED <<envVars, splitVars, histVars>>

\* Lines 77-83, and 91-94 when psycopg2.connect raises.
SingleConnect ==
    /\ prog = RunMigrationProg
    /\ pc = "s_connect"
    /\ \E r \in {"ok", "dberror"} :
          IF r = "ok"
          THEN /\ conn' = "open"
               /\ pc' = "s_exec"
               /\ out' = Append(out, Line("connected", 0, NoFile, ""))
               /\ UNCHANGED exitCode
          ELSE /\ ExitWith(1, Line("Database error", 0, NoFile, r))
               /\ UNCHANGED conn
    /\ UNCHANGED <<migration_files, i, migration_sql, sql_text, reads, executed, executedText, applied>>
    /\ UNCHANGED <<envVars, splitVars, histVars>>

\* Lines 85-97: execute, then either the completion message and the two
\* close() calls, or one of the except branches.
SingleExecute ==
    /\ prog = RunMigrationProg
    /\ pc = "s_exec"
    /\ executed' = Append(executed, migration_sql)
    /\ executedText' = Append(executedText, sql_text)
    /\ \E r \in {"ok", "dberror", "error"} :
          IF r = "ok"
          THEN /\ applied' = Append(applied, migration_sql)
               /\ out' = Append(out, Line("completed", 0, target, ""))
               /\ conn' = "closed"
               /\ exitCode' = 0
               /\ pc' = "exit"
          ELSE /\ ExitWith(1, Line(IF r = "dberror" THEN "Database error"
                                   ELSE "Error", 0, target, r))
               /\ UNCHANGED <<applied, conn>>
    /\ UNCHANGED <<migration_files, i, migration_sql, sql_text, reads>>
    /\ UNCHANGED <<envVars, splitVars, histVars>>

\* Lines 107-111: KeyboardInterrupt at any point of run_migration.
SingleCancel ==
    /\ prog = RunMigrationProg
    /\ pc \notin {"s_args", "exit"}
    /\ ExitWith(1, Line("cancelled", 0, NoFile, ""))
    /\ UNCHANGED <<migration_files, i, migration_sql, sql_text, conn, reads, executed, executedText,
                   applied>>
    /\ UNCHANGED <<envVars, splitVars, histVars>>

Next ==
    \/ LoadEnv
    \/ Discover
    \/ Connect
    \/ ReadUnit
    \/ ExecuteUnit
    \/ Finish
    \/ Cancel
    \/ SingleArgs
    \/ SingleLoadEnv
    \/ SingleCheckFile
    \/ SingleRead
    \/ SingleConnect
    \/ SingleExecute
    \/ SingleCancel

Spec == Init /\ [][Next]_vars

----------------------------------------------------------------------------
\* run-migrations.py started again against the same database.

\* Largest number of runs against one database.
MaxRuns == 2

InitRerun ==
    /\ prog = RunMigrationsProg
    /\ urlSet = TRUE
    /\ pwEnv = TRUE
    /\ pwPrompt = FALSE
    /\ argc = 1
    /\ target = NoFile
    /\ dirExists = TRUE
    /\ listing \in Listings
    /\ guarded \in BOOLEAN
    /\ RunStart("env")
    /\ SplitIdle

\* The process has ended and the script is started again (lines 152-154):
\* nothing but the database survives.
Rerun ==
    /\ prog = RunMigrationsProg
    /\ pc = "exit"
    /\ runNo < MaxRuns
    /\ runNo' = runNo + 1
    /\ appliedAtStart' = applied
    /\ pc' = "env"
    /\ migration_files' = <<>>
    /\ i' = 0
    /\ migration_sql' = NoFile
    /\ sql_text' = <<>>
    /\ conn' = "none"
    /\ out' = <<>>
    /\ reads' = <<>>
    /\ executed' = <<>>
    /\ executedText' = <<>>
    /\ exitCode' = NoExit
    /\ UNCHANGED applied
    /\ UNCHANGED <<envVars, splitVars>>

NextRerun ==
    \/ LoadEnv
    \/ Discover
    \/ Connect
    \/ ReadUnit
    \/ ExecuteUnit
    \/ Finish
    \/ Cancel
    \/ Rerun

SpecRerun == InitRerun /\ [][NextRerun]_vars

----------------------------------------------------------------------------
\* scripts/split-migrations.py: strings.

Newline == "\n"

\* str.split('\n').
RECURSIVE SplitNl(_)
SplitNl(s) ==
    IF \A k \in 1..Len(s) : s[k] # Newline
    THEN <<s>>
    ELSE LET k == CHOOSE n \in 1..Len(s) :
                      s[n] = Newline /\ \A m \in 1..(n - 1) : s[m] # Newline
         IN <<SubSeq(s, 1, k - 1)>> \o SplitNl(SubSeq(s, k + 1, Len(s)))

\* '\n'.join(list).
RECURSIVE JoinNl(_)
JoinNl(l) ==
    IF l = <<>> THEN <<>>
    ELSE IF Len(l) = 1 THEN l[1]
    ELSE l[1] \o <<Newline>> \o JoinNl(Tail(l))

\* The literal head of migration_pattern: "-- Migration: ".
MarkerPrefix ==
    <<"-", "-", " ", "M", "i", "g", "r", "a", "t", "i", "o", "n", ":", " ">>

\* Number of digits of s from position k on (the greedy \d+).
RECURSIVE DigitRun(_, _)
DigitRun(s, k) ==
    IF k <= Len(s) /\ IsDigit(s[k]) THEN 1 + DigitRun(s, k + 1) ELSE 0

NoMatch == [ok |-> FALSE, number |-> <<>>, name |-> <<>>]

\* re.match(r'-- Migration: (\d+)_(.+?)\.sql', line): anchored at the start
\* of the line only; group 2 is lazy, so it ends before the first ".sql"
\* that leaves it non-empty.
MatchMarker(line) ==
    IF ~StartsWith(line, MarkerPrefix) THEN NoMatch
    ELSE
      LET p == Len(MarkerPrefix)
          d == DigitRun(line, p + 1)
          ns == p + d + 2
          J == {j \in 1..(Len(line) - ns - 3) :
                   SubSeq(line, ns + j, ns + j + 3) = DotSql}
      IN IF d = 0 \/ Len(line) < p + d + 1 THEN NoMatch
         ELSE IF line[p + d + 1] # "_" THEN NoMatch
         ELSE IF J = {} THEN NoMatch
         ELSE LET j == CHOOSE x \in J : \A y \in J : x <= y
              IN [ok |-> TRUE,
                  number |-> SubSeq(line, p + 1, p + d),
                  name |-> SubSeq(line, ns, ns + j - 1)]

\* int(match.group(1)).
RECURSIVE ParseInt(_)
ParseInt(ds) ==
    IF ds = <<>> THEN 0
    ELSE 10 * ParseInt(SubSeq(ds, 1, Len(ds) - 1)) + DigitVal(ds[Len(ds)])

\* str(n) for n >= 0.
RECURSIVE ToDigits(_)
ToDigits(n) ==
    IF n < 10 THEN <<Digits[n + 1]>>
    ELSE ToDigits(n \div 10) \o <<Digits[(n % 10) + 1]>>

RECURSIVE PadLeft(_, _)
PadLeft(ds, w) == IF Len(ds) >= w THEN ds ELSE PadLeft(<<"0">> \o ds, w)

\* f"{current_number:03d}".
FormatKey(n) == PadLeft(ToDigits(n), 3)

\* f'{migration_key}_{migration["name"]}.sql'.
OutputFileName(key, name) == key \o <<"_">> \o name \o DotSql

\* current_number = None.
NoneNumber == -1
NoneName == <<>>

\* Sequence of the elements of a set of strings in sorted() order.
RECURSIVE SortedSet(_)
SortedSet(S) ==
    IF S = {} THEN <<>>
    ELSE LET x == CHOOSE a \in S : \A b \in S \ {a} : StrLess(a, b)
         IN <<x>> \o SortedSet(S \ {x})

----------------------------------------------------------------------------
\* scripts/split-migrations.py: combined documents.

Mk(number, name) == MarkerPrefix \o number \o <<"_">> \o name \o DotSql

TextA == <<"a">>
TextB == <<"b">>
Blank == <<>>
M001a == Mk(<<"0", "0", "1">>, <<"a">>)
M001b == Mk(<<"0", "0", "1">>, <<"b">>)
M002b == Mk(<<"0", "0", "2">>, <<"b">>)
M1c == Mk(<<"1">>, <<"c">>)
M003cTrailing == Mk(<<"0", "0", "3">>, <<"c">>) \o <<" ", "x">>
IndentedMarker == <<" ">> \o M001a
M004dDoubleExt == Mk(<<"0", "0", "4">>, <<"d">> \o DotSql)
M999x == Mk(<<"9", "9", "9">>, <<"x">>)
M1000d == Mk(<<"1", "0", "0", "0">>, <<"d">>)

DocLines ==
    {TextA, TextB, Blank, M001a, M001b, M002b, M1c, M003cTrailing,
     IndentedMarker, M004dDoubleExt, M999x, M1000d}

RECURSIVE SeqsUpTo(_, _)
SeqsUpTo(S, n) ==
    IF n = 0 THEN {<<>>}
    ELSE LET shorter == SeqsUpTo(S, n - 1)
         IN shorter \cup {Append(q, x) : q \in shorter, x \in S}

\* Every text of one to MaxLines lines.
Documents == {JoinNl(l) : l \in SeqsUpTo(DocLines, MaxLines) \ {<<>>}}

----------------------------------------------------------------------------
\* scripts/split-migrations.py: the script.

RunIdle ==
    /\ prog = "split_migrations"
    /\ urlSet = FALSE
    /\ pwEnv = FALSE
    /\ pwPrompt = FALSE
    /\ argc = 1
    /\ target = NoFile
    /\ dirExists = TRUE
    /\ listing = <<COMBINED_ALL_MIGRATIONS>>
    /\ guarded = TRUE
    /\ RunStart("idle")

InitSplit ==
    /\ RunIdle
    /\ content \in Documents
    /\ lines = <<>>
    /\ idx = 0
    /\ migrations = <<>>
    /\ current_number = NoneNumber
    /\ current_name = NoneName
    /\ buffer = <<>>
    /\ keysLeft = <<>>
    /\ finalized = <<>>
    /\ written = <<>>
    /\ spc = "read"
    /\ units = <<>>
    /\ pass = 1
    /\ firstWritten = <<>>

\* The value stored for the open migration (lines 28-31 and 42-45).
CurrentEntry == [name |-> current_name, content |-> JoinNl(buffer)]

\* SaveCurrent where an existing key is kept (setdefault instead of
\* assignment).
SaveCurrentFirstWins ==
    migrations @@ (FormatKey(current_number) :> CurrentEntry)

\* migrations[migration_key] = {...}: lines 27-31 and 41-45.
SaveCurrent ==
    (FormatKey(current_number) :> CurrentEntry) @@ migrations

\* StartBuffer without the marker line (buffer = []).
StartBufferEmpty(line) == <<>>

\* buffer = [line]: line 35.
StartBuffer(line) == <<line>>

\* Lines 11-13 and 22: the combined file is read and split into lines; a
\* missing file ends the script with an uncaught exception.
ReadCombined ==
    /\ spc = "read"
    /\ \E r \in {"ok", "oserror"} :
          IF r = "ok"
          THEN /\ lines' = SplitNl(content)
               /\ idx' = 1
               /\ spc' = "scan"
          ELSE /\ spc' = "failed"
               /\ UNCHANGED <<lines, idx>>
    /\ UNCHANGED <<content, migrations, current_number, current_name, buffer,
                   keysLeft, finalized, written>>
    /\ UNCHANGED <<envVars, runVars, tripVars>>

\* Lines 22-37: one iteration of the for loop.
ScanLine ==
    /\ spc = "scan"
    /\ idx <= Len(lines)
    /\ LET line == lines[idx]
           match == MatchMarker(line)
       IN IF match.ok
          THEN /\ IF current_number # NoneNumber
                  THEN /\ migrations' = SaveCurrent
                       /\ finalized' = Append(finalized,
                              [number |-> current_number,
                               name |-> current_name,
                               content |-> JoinNl(buffer)])
                  ELSE UNCHANGED <<migrations, finalized>>
               /\ current_number' = ParseInt(match.number)
               /\ current_name' = match.name
               /\ buffer' = StartBuffer(line)
          ELSE /\ buffer' = Append(buffer, line)
               /\ UNCHANGED <<migrations, finalized, current_number,
                              current_name>>
    /\ idx' = idx + 1
    /\ UNCHANGED <<content, lines, keysLeft, written, spc>>
    /\ UNCHANGED <<envVars, runVars, tripVars>>

\* Lines 39-50: the open migration is saved and the keys are sorted.
SaveLast ==
    /\ spc = "scan"
    /\ idx > Len(lines)
    /\ IF current_number # NoneNumber
       THEN /\ migrations' = SaveCurrent
            /\ finalized' = Append(finalized,
                   [number |-> current_number,
                    name |-> current_name,
                    content |-> JoinNl(buffer)])
       ELSE UNCHANGED <<migrations, finalized>>
    /\ keysLeft' = SortedSet(DOMAIN migrations')
    /\ spc' = "write"
    /\ UNCHANGED <<content, lines, idx, current_number, current_name, buffer,
                   written>>
    /\ UNCHANGED <<envVars, runVars, tripVars>>

\* Lines 50-59: one file is written.
WriteFile ==
    /\ spc = "write"
    /\ keysLeft # <<>>
    /\ LET migration_key == keysLeft[1]
           migration == migrations[migration_key]
       IN written' = Append(written,
              [filename |-> OutputFileName(migration_key, migration.name),
               content |-> migration.content])
    /\ keysLeft' = Tail(keysLeft)
    /\ UNCHANGED <<content, lines, idx, migrations, current_number,
                   current_name, buffer, finalized, spc>>
    /\ UNCHANGED <<envVars, runVars, tripVars>>

\* Lines 61-66: "Split complete!" and the script ends normally.
SplitDone ==
    /\ spc = "write"
    /\ keysLeft = <<>>
    /\ spc' = "done"
    /\ UNCHANGED <<content, lines, idx, migrations, current_number,
                   current_name, buffer, keysLeft, finalized, written>>
    /\ UNCHANGED <<envVars, runVars, tripVars>>

NextSplit ==
    \/ ReadCombined
    \/ ScanLine
    \/ SaveLast
    \/ WriteFile
    \/ SplitDone

SpecSplit == InitSplit /\ [][NextSplit]_vars

----------------------------------------------------------------------------
\* scripts/split-migrations.py run on a document built from known units, and
\* run again on the bodies it emitted.

\* Largest number of units of a combined document built from units.
MaxUnits == 2

\* The marker line format of the combined document: the whole line is
\* "-- Migration: ", digits, "_", a non-empty description, ".sql".
IsExactMarkerLine(line) ==
    LET p == Len(MarkerPrefix)
        d == DigitRun(line, p + 1)
    IN /\ StartsWith(line, MarkerPrefix)
       /\ d >= 1
       /\ Len(line) >= p + d + 6
       /\ line[p + d + 1] = "_"
       /\ EndsWith(line, DotSql)

\* The description of an exact marker line: everything between the
\* underscore and the final extension.
FullDescription(line) ==
    LET p == Len(MarkerPrefix)
        d == DigitRun(line, p + 1)
    IN SubSeq(line, p + d + 2, Len(line) - 4)

UnitSequences == {1, 999, 1000}
UnitNames == {<<"a">>, <<"c">> \o DotSql}
UnitTails == {<<>>, <<TextA>>, <<M003cTrailing>>}

\* A unit whose body is its own marker line followed by the lines of tail.
MakeUnit(sequence, name, tail) ==
    [sequence |-> sequence,
     name |-> name,
     body |-> JoinNl(<<Mk(FormatKey(sequence), name)>> \o tail)]

UnitUniverse ==
    {MakeUnit(n, nm, t) : n \in UnitSequences, nm \in UnitNames, t \in UnitTails}

\* Lists of one to MaxUnits units with strictly ascending sequences.
UnitLists ==
    {l \in SeqsUpTo(UnitUniverse, MaxUnits) \ {<<>>} :
        \A a, b \in 1..Len(l) : a < b => l[a].sequence < l[b].sequence}

InitRoundTrip ==
    /\ RunIdle
    /\ units \in UnitLists
    /\ content = JoinNl([k \in 1..Len(units) |-> units[k].body])
    /\ lines = <<>>
    /\ idx = 0
    /\ migrations = <<>>
    /\ current_number = NoneNumber
    /\ current_name = NoneName
    /\ buffer = <<>>
    /\ keysLeft = <<>>
    /\ finalized = <<>>
    /\ written = <<>>
    /\ spc = "read"
    /\ pass = 1
    /\ firstWritten = <<>>

\* The script is started again (lines 8-20) on the concatenation of the
\* bodies it has just written, in the order it wrote them.
Resplit ==
    /\ spc = "done"
    /\ pass = 1
    /\ firstWritten' = written
    /\ pass' = 2
    /\ content' = JoinNl([k \in 1..Len(written) |-> written[k].content])
    /\ lines' = <<>>
    /\ idx' = 0
    /\ migrations' = <<>>
    /\ current_number' = NoneNumber
    /\ current_name' = NoneName
    /\ buffer' = <<>>
    /\ keysLeft' = <<>>
    /\ finalized' = <<>>
    /\ written' = <<>>
    /\ spc' = "read"
    /\ UNCHANGED units
    /\ UNCHANGED <<envVars, runVars>>

NextRoundTrip ==
    \/ ReadCombined
    \/ ScanLine
    \/ SaveLast
    \/ WriteFile
    \/ SplitDone
    \/ Resplit

SpecRoundTrip == InitRoundTrip /\ [][NextRoundTrip]_vars

----------------------------------------------------------------------------
\* Properties of the runners.

OkLines == SelectSeq(out, LAMBDA l : l.kind = "OK")

FailedLines == SelectSeq(out, LAMBDA l : l.kind = "FAILED")

Prefix(s, n) == SubSeq(s, 1, n)

\* C1: fail-fast. Whenever unit k of run_migrations was reported FAILED,
\* units 1..k-1 were each reported OK before it, the FAILED line names unit k
\* and is followed by its error text, exactly the first k files were read
\* and executed, and the run has ended with status 1.
C1_FailFast ==
    \A n \in 1..Len(out) :
        out[n].kind = "FAILED" =>
            LET k == out[n].n IN
            /\ \A j \in 1..(k - 1) :
                  \E m \in 1..(n - 1) :
                      out[m] = Line("OK", j, migration_files[j], "")
            /\ out[n].file = migration_files[k]
            /\ out[n].err \in {"dberror", "error"}
            /\ n < Len(out)
            /\ out[n + 1].err = out[n].err
            /\ reads = Prefix(migration_files, k)
            /\ executed = Prefix(migration_files, k)
            /\ pc = "exit"
            /\ exitCode = 1

\* The second of three units failed.
C1_Witness ==
    /\ Len(migration_files) = 3
    /\ \E n \in 1..Len(out) : out[n].kind = "FAILED" /\ out[n].n = 2
    /\ Len(OkLines) = 1

\* C2 (as claimed): the units run_migrations executes have strictly
\* ascending numeric sequences.
C2_StrictlyAscendingExecution ==
    prog = RunMigrationsProg =>
        \A a, b \in 1..Len(executed) :
            a < b =>
                /\ SeqOf(executed[a]) # NoSequence
                /\ SeqOf(executed[a]) < SeqOf(executed[b])

\* C3 (as claimed): a run that opened the connection has closed it when the
\* process ends.
C3_ConnectionReleased ==
    (pc = "exit" /\ conn # "none") => conn = "closed"

\* C4: no rollback across units. At every point of a run of run_migrations
\* the units applied to the database are exactly the units reported OK, they
\* are a prefix of the discovered list, and once unit k is reported FAILED
\* the database holds units 1..k-1 and nothing else.
C4_AppliedIsOkPrefix ==
    prog = RunMigrationsProg =>
        /\ Len(applied) <= Len(migration_files)
        /\ applied = Prefix(migration_files, Len(applied))
        /\ Len(OkLines) = Len(applied)
        /\ \A j \in 1..Len(applied) :
              OkLines[j] = Line("OK", j, applied[j], "")
        /\ \A n \in 1..Len(out) :
              out[n].kind = "FAILED" =>
                  applied = Prefix(migration_files, out[n].n - 1)

\* The third unit failed after two were committed.
C4_Witness ==
    /\ prog = RunMigrationsProg
    /\ Len(applied) = 2
    /\ Len(FailedLines) = 1
    /\ FailedLines[1].n = 3
    /\ pc = "exit"

\* The directory holds a file run_migrations would run.
HasMatchingFile ==
    /\ dirExists
    /\ \E f \in Range(listing) : GlobMatch(f) /\ f # COMBINED_ALL_MIGRATIONS

TargetExists == dirExists /\ target \in Range(listing)

InvalidInput ==
    \/ prog = RunMigrationsProg /\ ~HasMatchingFile
    \/ prog = RunMigrationProg /\ ~TargetExists

\* C5: input validation precedes the connection. With a missing directory
\* or no matching file (run_migrations), or a missing named file
\* (run_migration), no connection is ever opened, nothing is read or
\* executed, and the process ends with a non-zero status.
C5_ValidationBeforeConnection ==
    InvalidInput =>
        /\ conn = "none"
        /\ executed = <<>>
        /\ applied = <<>>
        /\ pc \notin {"connect", "loop", "exec", "s_read", "s_connect", "s_exec"}
        /\ pc = "exit" => exitCode = 1

\* run_migrations ended on a directory that exists but holds no matching
\* file, with URL and password available.
C5_Witness ==
    /\ prog = RunMigrationsProg
    /\ dirExists
    /\ listing # <<>>
    /\ ~HasMatchingFile
    /\ pc = "exit"
    /\ out[Len(out)].kind = "no migration files"

\* C6 (as claimed): the discovered list has strictly increasing sequences,
\* each the numeric prefix of its file name, without the combined file.
C6_StrictlyIncreasingSequences ==
    /\ \A a \in 1..Len(migration_files) :
          /\ SeqOf(migration_files[a]) # NoSequence
          /\ migration_files[a] # COMBINED_ALL_MIGRATIONS
    /\ \A a, b \in 1..Len(migration_files) :
          a < b => SeqOf(migration_files[a]) < SeqOf(migration_files[b])

\* A unit name as the directory layout defines it: three decimal digits, an
\* underscore, a name, and the extension.
IsUnitName(name) ==
    /\ Len(name) >= 9
    /\ IsDigit(name[1]) /\ IsDigit(name[2]) /\ IsDigit(name[3])
    /\ name[4] = "_"
    /\ EndsWith(name, DotSql)
    /\ name # COMBINED_ALL_MIGRATIONS

\* C7 (as claimed): once discovery has run, a directory entry is in the
\* discovered list if and only if it is a unit name, and no other file is
\* ever executed.
C7_DiscoveryPattern ==
    (prog = RunMigrationsProg /\ pc \in {"connect", "loop", "exec"}) =>
        /\ \A f \in Range(listing) :
              f \in Range(migration_files) <=> IsUnitName(f)
        /\ \A f \in Range(executed) : IsUnitName(f)

----------------------------------------------------------------------------
\* Properties of the splitter.

\* Positions of the lines of ls that the splitter takes for markers.
MarkerPositions(ls) == {k \in 1..Len(ls) : MatchMarker(ls[k]).ok}

MarkerNumber(ls, k) == ParseInt(MatchMarker(ls[k]).number)

MarkerName(ls, k) == MatchMarker(ls[k]).name

\* Position of the n-th marker line.
NthMarker(ls, n) ==
    CHOOSE k \in MarkerPositions(ls) :
        Cardinality({m \in MarkerPositions(ls) : m <= k}) = n

\* Position of the first marker after line k, Len(ls) + 1 when there is none.
NextMarker(ls, k) ==
    LET later == {m \in MarkerPositions(ls) : m > k} \cup {Len(ls) + 1}
    IN CHOOSE m \in later : \A x \in later : m <= x

\* Offset in the text of the first character of line k (lines are separated
\* by one newline character).
RECURSIVE LineStart(_, _)
LineStart(ls, k) ==
    IF k = 1 THEN 1 ELSE LineStart(ls, k - 1) + Len(ls[k - 1]) + 1

\* The part of the text from the start of marker line k up to, and without,
\* the newline that precedes the next marker line, or up to the end.
BodySlice(text, ls, k) ==
    SubSeq(text, LineStart(ls, k), LineStart(ls, NextMarker(ls, k)) - 2)

\* C8 (as claimed): on a document without any marker line the splitter does
\* not complete normally and writes no file.
C8_EmptyInputIsAnError ==
    MarkerPositions(SplitNl(content)) = {} =>
        /\ spc # "done"
        /\ written = <<>>

\* The unit the splitter is expected to emit for sequence n: named and
\* filled from the last marker carrying n.
LastOccurrence(ls, n) ==
    LET occ == {k \in MarkerPositions(ls) : MarkerNumber(ls, k) = n}
    IN CHOOSE k \in occ : \A m \in occ : m <= k

ExpectedUnit(text, ls, n) ==
    [filename |-> OutputFileName(FormatKey(n),
                                 MarkerName(ls, LastOccurrence(ls, n))),
     content |-> BodySlice(text, ls, LastOccurrence(ls, n))]

\* C9: last-write-wins. When the splitter has completed, it has written
\* exactly one file per distinct integer sequence among the marker lines,
\* and each file carries the name and the body of the last marker with that
\* sequence, so nothing of an earlier occurrence is left in any file.
C9_LastWriteWins ==
    spc = "done" =>
        LET ls == SplitNl(content)
            nums == {MarkerNumber(ls, k) : k \in MarkerPositions(ls)}
        IN /\ Len(written) = Cardinality(nums)
           /\ \A n \in nums :
                 Cardinality({j \in 1..Len(written) :
                                 written[j] = ExpectedUnit(content, ls, n)}) = 1
           /\ \A j \in 1..Len(written) :
                 \E n \in nums : written[j] = ExpectedUnit(content, ls, n)

\* A completed split of a document in which one sequence occurs in two
\* markers with different names, next to a marker of another sequence.
C9_Witness ==
    /\ spc = "done"
    /\ Len(written) = 2
    /\ LET ls == SplitNl(content)
       IN \E a, b \in MarkerPositions(ls) :
             /\ a < b
             /\ MarkerNumber(ls, a) = MarkerNumber(ls, b)
             /\ MarkerName(ls, a) # MarkerName(ls, b)

\* Number of marker lines whose unit has been finalized: during the scan all
\* markers met so far but the last one, afterwards all of them.
FinalizedCount ==
    LET ls == SplitNl(content)
        met == {k \in MarkerPositions(ls) : k < idx}
    IN IF spc = "read" \/ spc = "failed" THEN 0
       ELSE IF spc = "scan" THEN (IF met = {} THEN 0 ELSE Cardinality(met) - 1)
       ELSE Cardinality(MarkerPositions(ls))

\* C10: body extent. The n-th unit the splitter finalizes is the n-th marker
\* line's unit, and its body is the text from the start of that marker line
\* up to, and without, the newline before the next marker line, or up to the
\* end of the text; the unit open at the end of input is finalized too, and
\* every file written carries one of these bodies, so no line before the
\* first marker is in any of them.
C10_BodyExtent ==
    LET ls == SplitNl(content)
    IN /\ Len(finalized) = FinalizedCount
       /\ \A n \in 1..Len(finalized) :
             LET k == NthMarker(ls, n)
             IN /\ finalized[n].number = MarkerNumber(ls, k)
                /\ finalized[n].name = MarkerName(ls, k)
                /\ finalized[n].content = BodySlice(content, ls, k)
       /\ \A j \in 1..Len(written) :
             \E n \in 1..Len(finalized) :
                 written[j].content = finalized[n].content

\* A completed split of a text with a line before the first marker, a
\* marker followed by a text line, and the last unit closed by end of input.
C10_Witness ==
    /\ spc = "done"
    /\ LET ls == SplitNl(content)
       IN /\ Len(ls) >= 3
          /\ 1 \notin MarkerPositions(ls)
          /\ 2 \in MarkerPositions(ls)
          /\ 3 \notin MarkerPositions(ls)
    /\ Len(finalized) = 1
    /\ Len(written) = 1

----------------------------------------------------------------------------
\* Properties of splitting twice.

\* The file a unit is expected to come back as.
UnitFile(u) ==
    [filename |-> OutputFileName(FormatKey(u.sequence), u.name),
     content |-> u.body]

\* C11 (as claimed): the first split of a document built from units yields
\* exactly those units, and the split of the emitted bodies yields the same
\* set again.
C11_RoundTrip ==
    spc = "done" =>
        IF pass = 1
        THEN Range(written) = {UnitFile(units[k]) : k \in 1..Len(units)}
        ELSE Range(written) = Range(firstWritten)

----------------------------------------------------------------------------
\* Properties of marker recognition, keys and file names.

ExactMarkerPositions(ls) == {k \in 1..Len(ls) : IsExactMarkerLine(ls[k])}

NthExactMarker(ls, n) ==
    CHOOSE k \in ExactMarkerPositions(ls) :
        Cardinality({m \in ExactMarkerPositions(ls) : m <= k}) = n

\* C12 (as claimed): the units the splitter opens are exactly the lines that
\* are, as a whole, "-- Migration: <digits>_<description>.sql"; the n-th unit
\* starts at the n-th such line and is named by its full description.
C12_MarkerRecognition ==
    spc \in {"write", "done"} =>
        LET ls == SplitNl(content)
        IN /\ Len(finalized) = Cardinality(ExactMarkerPositions(ls))
           /\ \A n \in 1..Len(finalized) :
                 LET k == NthExactMarker(ls, n)
                 IN /\ finalized[n].name = FullDescription(ls[k])
                    /\ StartsWith(finalized[n].content, ls[k])

----------------------------------------------------------------------------
\* Properties of the exit status of run-migrations.py.

Cancelled == \E n \in 1..Len(out) : out[n].kind = "cancelled"

\* psycopg2.connect of run_migrations failed (the handler of lines 144-147
\* ran before any unit was started).

ConnectionFailed ==
    \E n \in 1..Len(out) : out[n].kind = "Database error" /\ out[n].n = 0

AllExecutedAndSucceeded ==
    /\ executed = migration_files
    /\ applied = migration_files

\* C13 (as claimed): a run that discovered units ends with status zero if
\* and only if every discovered unit was executed and succeeded.
C13_ZeroIffAllSucceeded ==
    (prog = RunMigrationsProg /\ pc = "exit" /\ migration_files # <<>>) =>
        (exitCode = 0 <=> AllExecutedAndSucceeded)

\* C13 (amended): a run ends with status zero if and only if it discovered
\* at least one unit, every discovered unit was executed and succeeded, and
\* no cancellation arrived before the script ended; a unit failure, a
\* connection failure or a cancellation ends it with status 1; and the
\* completion message is the last line printed, after an OK for every
\* discovered unit.
C13_ExitStatus ==
    prog = RunMigrationsProg =>
        /\ pc = "exit" =>
              /\ exitCode \in {0, 1}
              /\ exitCode = 0 <=>
                    /\ migration_files # <<>>
                    /\ AllExecutedAndSucceeded
                    /\ ~Cancelled
              /\ (FailedLines # <<>> \/ ConnectionFailed \/ Cancelled) =>
                    exitCode = 1
        /\ pc # "exit" => exitCode = NoExit
        /\ \A n \in 1..Len(out) :
              out[n].kind = "completed" =>
                  /\ n = Len(out)
                  /\ migration_files # <<>>
                  /\ Len(OkLines) = Len(migration_files)
                  /\ \A j \in 1..Len(migration_files) :
                        OkLines[j].file = migration_files[j]
                  /\ exitCode = 0

\* A run over three units that all succeeded and that ended with status 0.
C13_Witness ==
    /\ prog = RunMigrationsProg
    /\ pc = "exit"
    /\ exitCode = 0
    /\ Len(migration_files) = 3
    /\ out[Len(out)].kind = "completed"

----------------------------------------------------------------------------
\* Properties of the text passed to the database.

\* C14 (as claimed): the text passed to cursor.execute is, character for
\* character, the content of the file.
C14_ByteExactBody ==
    /\ Len(executedText) = Len(executed)
    /\ \A k \in 1..Len(executed) : executedText[k] = FileText(executed[k])

----------------------------------------------------------------------------
\* Properties of repeated runs.

\* C15: re-run after partial application. With guarded scripts, every run
\* finds the database holding a prefix of the discovered units, starts
\* executing at the first discovered unit, never fails on a unit the
\* database already holds, and when it ends with status 0 the database holds
\* exactly the discovered units, each once, as after one clean run.
C15_RerunConverges ==
    guarded =>
        LET discovered == DiscoverFiles(dirExists, listing)
        IN /\ Len(appliedAtStart) <= Len(discovered)
           /\ appliedAtStart = Prefix(discovered, Len(appliedAtStart))
           /\ Len(executed) <= Len(migration_files)
           /\ executed = Prefix(migration_files, Len(executed))
           /\ \A n \in 1..Len(out) :
                 out[n].kind = "FAILED" => out[n].n > Len(appliedAtStart)
           /\ (pc = "exit" /\ exitCode = 0) =>
                 /\ executed = discovered
                 /\ applied = discovered

\* A second run over three units, two of which were already applied, that
\* ended with status 0.
C15_Witness ==
    /\ guarded
    /\ runNo = 2
    /\ Len(appliedAtStart) = 2
    /\ Len(migration_files) = 3
    /\ pc = "exit"
    /\ exitCode = 0
    /\ Len(executed) = 3

----------------------------------------------------------------------------
\* Properties of the files the splitter writes.

\* The sequence number a written file name starts with.
FileNumber(filename) == ParseInt(SubSeq(filename, 1, DigitRun(filename, 1)))

\* C16 (as claimed): the files are written in ascending order of their
\* numeric sequence.
C16_AscendingOutputOrder ==
    \A a, b \in 1..Len(written) :
        a < b => FileNumber(written[a].filename) < FileNumber(written[b].filename)

\* C18 (as claimed): every file the splitter writes has a name that the
\* discovery of run_migrations accepts.
C18_OutputDiscoverable ==
    \A j \in 1..Len(written) :
        /\ GlobMatch(written[j].filename)
        /\ written[j].filename # COMBINED_ALL_MIGRATIONS

----------------------------------------------------------------------------
\* Properties of the execution loop.

Occurrences(q, x) == Cardinality({k \in 1..Len(q) : q[k] = x})

\* C17: no retries. In one run no file is passed to cursor.execute twice, a
\* unit reported FAILED is the last one executed, nothing is executed
\* without a connection, and a failed connection ends the run with nothing
\* read or executed.
C17_NoRetries ==
    /\ \A k \in 1..Len(executed) : Occurrences(executed, executed[k]) = 1
    /\ Len(FailedLines) <= 1
    /\ \A n \in 1..Len(out) :
          out[n].kind = "FAILED" =>
              /\ executed[Len(executed)] = out[n].file
              /\ pc = "exit"
    /\ executed # <<>> => conn # "none"
    /\ pc \in {"exec", "s_exec"} => conn = "open"
    /\ (prog = RunMigrationsProg /\ ConnectionFailed) =>
          /\ executed = <<>>
          /\ reads = <<>>
          /\ conn = "none"
          /\ pc = "exit"
          /\ exitCode = 1

\* The first of several units failed and the run ended with that unit
\* executed once.
C17_Witness ==
    /\ prog = RunMigrationsProg
    /\ Len(migration_files) >= 2
    /\ Len(FailedLines) = 1
    /\ FailedLines[1].n = 1
    /\ executed = <<migration_files[1]>>
    /\ pc = "exit"

ReadFailures ==
    {n \in 1..Len(out) : out[n].kind = "Error" /\ out[n].err = "oserror"}

\* C19: lazy body loading. run_migrations opens unit k's file only with the
\* connection open and units 1..k-1 applied; when the read of unit k fails
\* the run ends with status 1, units 1..k-1 stay applied and neither unit k
\* nor a later unit is executed.
C19_LazyBodyLoading ==
    prog = RunMigrationsProg =>
        /\ reads # <<>> => conn # "none"
        /\ pc = "loop" => conn = "open"
        /\ Len(reads) <= Len(migration_files)
        /\ reads = Prefix(migration_files, Len(reads))
        /\ Len(reads) <= Len(applied) + 1
        /\ \A n \in ReadFailures :
              LET k == out[n].n
              IN /\ pc = "exit"
                 /\ exitCode = 1
                 /\ reads = Prefix(migration_files, k)
                 /\ applied = Prefix(migration_files, k - 1)
                 /\ executed = Prefix(migration_files, k - 1)

\* The file of the second of three units could not be read.
C19_Witness ==
    /\ prog = RunMigrationsProg
    /\ Len(migration_files) = 3
    /\ \E n \in ReadFailures : out[n].n = 2
    /\ Len(applied) = 1
    /\ pc = "exit"

====
